---- MODULE Spec2Model ----
(***************************************************************************)
(* A model of annotate.go, the compiler of the glow-club sequence language *)
(* of PimpMyGlow: parseProgram, specializeForClub, resolveColor,           *)
(* resolveLabels, resolveTime and annotateTimes, as main runs them.        *)
(*                                                                         *)
(* A Go string is a sequence of one-character strings, so that splitting,  *)
(* trimming, number parsing and formatting are computed, not assumed.      *)
(* A Go line index is kept as the code keeps it (lines[lineNo] in Go is    *)
(* lines[lineNo + 1] here).  os.Exit(1) and a runtime panic are results    *)
(* carrying an error record; a caller stops at the first one.  A Go int is  *)
(* its 64 bits, so that +, - and * wrap around as they do in Go.           *)
(***************************************************************************)
EXTENDS Integers, Sequences, FiniteSets, TLC

VARIABLES goarch, file, lines, club, pc, labels, parsed, specialized, colored,
          colors, delabeled, resolved, times, out, err

vars == <<goarch, file, lines, club, pc, labels, parsed, specialized, colored,
          colors, delabeled, resolved, times, out, err>>

\* ------------------------------------------------------------------ strings

Digits == <<"0", "1", "2", "3", "4", "5", "6", "7", "8", "9">>

isDigit(ch) == \E i \in 1..10 : Digits[i] = ch

digitValue(ch) == (CHOOSE i \in 1..10 : Digits[i] = ch) - 1

\* the cutset " \t" of strings.Trim in splitLine
TrimCutset == {" ", "\t"}

\* the class \s of Go's regexp
RegexSpace == {" ", "\t", "\n", "\f", "\r"}

\* strings.Index(s, ch) for a one-character ch, 0-based; -1 when absent
IndexOf(s, ch) ==
    IF \E i \in 1..Len(s) : s[i] = ch
    THEN (CHOOSE i \in 1..Len(s) : s[i] = ch /\ \A j \in 1..(i - 1) : s[j] # ch) - 1
    ELSE -1

RECURSIVE TrimLeft(_)
TrimLeft(s) ==
    IF s # <<>> /\ Head(s) \in TrimCutset THEN TrimLeft(Tail(s)) ELSE s

RECURSIVE TrimRight(_)
TrimRight(s) ==
    IF s # <<>> /\ s[Len(s)] \in TrimCutset
    THEN TrimRight(SubSeq(s, 1, Len(s) - 1))
    ELSE s

\* strings.Trim(s, " \t")
Trim(s) == TrimRight(TrimLeft(s))

\* strings.Split(s, ","): always at least one field, the empty string for ""
RECURSIVE Split(_)
Split(s) ==
    LET i == IndexOf(s, ",")
    IN  IF i = -1 THEN <<s>>
        ELSE <<SubSeq(s, 1, i)>> \o Split(SubSeq(s, i + 2, Len(s)))

\* strings.Join(fields, ",")
RECURSIVE Join(_)
Join(fields) ==
    IF fields = <<>> THEN <<>>
    ELSE IF Len(fields) = 1 THEN fields[1]
    ELSE fields[1] \o <<",">> \o Join(Tail(fields))

\* the number a short string of digits spells
RECURSIVE digitsValue(_)
digitsValue(s) ==
    IF s = <<>> THEN 0
    ELSE digitsValue(SubSeq(s, 1, Len(s) - 1)) * 10 + digitValue(s[Len(s)])

\* the decimal digits of the largest int (64 bits), and of the magnitude of
\* the smallest
MaxIntDigits ==
    <<"9", "2", "2", "3", "3", "7", "2", "0", "3", "6", "8", "5", "4", "7", "7",
      "5", "8", "0", "7">>
MinIntDigits ==
    <<"9", "2", "2", "3", "3", "7", "2", "0", "3", "6", "8", "5", "4", "7", "7",
      "5", "8", "0", "8">>

\* the digits of body after its leading zeros
RECURSIVE significant(_)
significant(body) ==
    IF body # <<>> /\ body[1] = "0" THEN significant(Tail(body)) ELSE body

\* a <= b for two digit strings of one length
digitsLeq(a, b) ==
    \/ a = b
    \/ \E i \in 1..Len(a) :
          /\ digitValue(a[i]) < digitValue(b[i])
          /\ \A j \in 1..(i - 1) : a[j] = b[j]

\* the number the digits of body spell, negated or not, is an int: otherwise
\* strconv.Atoi returns a range error
inRange(body, negative) ==
    LET sig == significant(body)
    IN  \/ Len(sig) < Len(MaxIntDigits)
        \/ /\ Len(sig) = Len(MaxIntDigits)
           /\ digitsLeq(sig, IF negative THEN MinIntDigits ELSE MaxIntDigits)

\* whether strconv.Atoi(s) returns no error: an optional sign, then digits
\* that spell an int
AtoiOk(s) ==
    /\ s # <<>>
    /\ LET body == IF s[1] \in {"-", "+"} THEN Tail(s) ELSE s
       IN  /\ body # <<>>
           /\ \A i \in 1..Len(body) : isDigit(body[i])
           /\ inRange(body, s[1] = "-")

\* F(e), with e evaluated once: LET x == e IN F(x)
Bind(e, F(_)) == CHOOSE r \in {F(x) : x \in {e}} : TRUE

\* ---------------------------------------------------------------------- int

\* Go's int is 64 bits wide and its +, - and * wrap around.  A value is kept
\* as its two's complement bits, in IntLimbs limbs of LimbBits bits, the least
\* significant first and the last one holding the TopLimbBits bits that
\* remain, so that every step below stays inside the integers TLC computes.
IntLimbs == 5
LimbBits == 13
TopLimbBits == 12

LimbBase == 2 ^ LimbBits
TopBase == 2 ^ TopLimbBits

\* limbs i..IntLimbs of the sum of raw and carry, modulo 2^64: the carry out
\* of the top limb is lost
RECURSIVE carried(_, _, _)
carried(raw, i, carry) ==
    Bind(raw[i] + carry,
         LAMBDA t : IF i = IntLimbs THEN <<t % TopBase>>
                    ELSE <<t % LimbBase>> \o carried(raw, i + 1, t \div LimbBase))

wrap(raw) == carried(raw, 1, 0)

intZero == [i \in 1..IntLimbs |-> 0]

\* -a
negate(a) ==
    wrap([i \in 1..IntLimbs |->
             (IF i = IntLimbs THEN TopBase - 1 - a[i] ELSE LimbBase - 1 - a[i])
                 + (IF i = 1 THEN 1 ELSE 0)])

\* the int of a number small enough for TLC
intOf(n) ==
    IF n < 0 THEN negate(wrap([i \in 1..IntLimbs |-> IF i = 1 THEN -n ELSE 0]))
    ELSE wrap([i \in 1..IntLimbs |-> IF i = 1 THEN n ELSE 0])

\* a + b
plus(a, b) == wrap([i \in 1..IntLimbs |-> a[i] + b[i]])

\* a - b
minus(a, b) == plus(a, negate(b))

\* the sum of the products a[i] * b[k + 1 - i] for i in 1..n
RECURSIVE column(_, _, _, _)
column(a, b, k, n) ==
    IF n = 0 THEN 0 ELSE a[n] * b[k + 1 - n] + column(a, b, k, n - 1)

\* a * b
mul(a, b) == wrap([k \in 1..IntLimbs |-> column(a, b, k, k)])

isZero(a) == a = intZero

isNegative(a) == a[IntLimbs] >= TopBase \div 2

\* a > 0
isPositive(a) == ~isNegative(a) /\ ~isZero(a)

\* a < b
less(a, b) ==
    IF isNegative(a) # isNegative(b) THEN isNegative(a)
    ELSE \E i \in 1..IntLimbs :
            /\ a[i] < b[i]
            /\ \A j \in (i + 1)..IntLimbs : a[j] = b[j]

\* the number a string of digits spells
RECURSIVE digitsInt(_)
digitsInt(s) ==
    IF s = <<>> THEN intZero
    ELSE Bind(digitsInt(SubSeq(s, 1, Len(s) - 1)),
              LAMBDA upper : plus(mul(upper, intOf(10)),
                                  intOf(digitValue(s[Len(s)]))))

\* the value of strconv.Atoi(s) when AtoiOk(s)
Atoi(s) ==
    IF s[1] = "-" THEN negate(digitsInt(Tail(s)))
    ELSE IF s[1] = "+" THEN digitsInt(Tail(s))
    ELSE digitsInt(s)

\* limbs 1..i of the quotient, and the remainder, of dividing by ten the
\* unsigned number whose upper limbs left the remainder rem
RECURSIVE divTen(_, _, _)
divTen(a, i, rem) ==
    IF i = 0 THEN [q |-> <<>>, r |-> rem]
    ELSE Bind(rem * LimbBase + a[i],
              LAMBDA cur :
                  Bind(divTen(a, i - 1, cur % 10),
                       LAMBDA rest : [q |-> Append(rest.q, cur \div 10),
                                      r |-> rest.r]))

\* the decimal digits of a read as an unsigned number, none for zero
RECURSIVE unsignedDigits(_)
unsignedDigits(a) ==
    IF isZero(a) THEN <<>>
    ELSE Bind(divTen(a, IntLimbs, 0),
              LAMBDA d : unsignedDigits(d.q) \o <<Digits[d.r + 1]>>)

\* fmt.Sprintf("%d", a) for an int
formatInt(a) ==
    IF isZero(a) THEN <<"0">>
    ELSE IF isNegative(a) THEN <<"-">> \o unsignedDigits(negate(a))
    ELSE unsignedDigits(a)

\* ------------------------------------------------------------------- errors

\* A fatal end of the process: kind names the message, lineNo is the number
\* the message prints (-1 when it prints none), info its other argument.
Error(kind, lineNo, info) == [kind |-> kind, lineNo |-> lineNo, info |-> info]

NoErr == Error("none", -1, <<>>)

isErr(e) == e.kind # "none"

\* a runtime panic (index out of range, nil regexp match, explicit panic)
Panic == Error("panic", -1, <<>>)

Ok(v) == [err |-> NoErr, val |-> v]

Fail(e) == [err |-> e, val |-> 0]

\* ------------------------------------------------------------------- parser

parseNumber(f, lineNo) ==
    IF AtoiOk(f) THEN Ok(Atoi(f)) ELSE Fail(Error("number", lineNo, <<>>))

parseCount(f, lineNo) ==
    LET n == parseNumber(f, lineNo)
    IN  IF isErr(n.err) THEN n
        ELSE IF isZero(n.val) THEN Fail(Error("zero", lineNo, <<>>))
        ELSE n

splitLine(lineVerbatim) ==
    LET i == IndexOf(lineVerbatim, ";")
        line == IF i # -1 THEN SubSeq(lineVerbatim, 1, i) ELSE lineVerbatim
        fields == Split(Trim(line))
    IN  [k \in 1..Len(fields) |-> Trim(fields[k])]

opE == <<"E">>
opL == <<"L">>
opD == <<"D">>
opC == <<"C">>
opCLUBS == <<"C", "L", "U", "B", "S">>
opRAMP == <<"R", "A", "M", "P">>
opTIME == <<"T", "I", "M", "E">>
opCOLOR == <<"C", "O", "L", "O", "R">>

isBlockCommand(c) == c = opL \/ c = opCLUBS

hasSubCommands(c) == isBlockCommand(c.fields[1])

\* the struct command; Go's zero values are the empty sequences
Command(line, lineNo, fields) ==
    [line |-> line, endLine |-> <<>>, lineNo |-> lineNo, fields |-> fields,
     subCommands |-> <<>>]

RECURSIVE parseLinesLoop(_, _, _)

\* a faulty variant of parseCommand that forgets the closing line of a block
RECURSIVE parseCommandNoEndLine(_, _, _)
parseCommandNoEndLine(ls, startLineNo, fields) ==
    LET c == Command(ls[startLineNo + 1], startLineNo, fields)
    IN  IF fields[1] = opE
        THEN [err |-> Panic, val |-> <<>>, lineNo |-> startLineNo]
        ELSE IF isBlockCommand(fields[1])
        THEN LET sub == parseLinesLoop(ls, startLineNo + 1, <<>>)
             IN  IF isErr(sub.err) THEN sub
                 ELSE IF sub.lineNo >= Len(ls)
                 THEN [err |-> Error("unterminated", -1, <<>>), val |-> <<>>,
                       lineNo |-> sub.lineNo]
                 ELSE [err |-> NoErr,
                       val |-> [c EXCEPT !.subCommands = sub.val],
                       lineNo |-> sub.lineNo + 1]
        ELSE [err |-> NoErr, val |-> c, lineNo |-> startLineNo + 1]

\* parseCommand: the command at lines[startLineNo] and the index after it.
\* fields[0] = "E" never reaches it (parseLines breaks first).
RECURSIVE parseCommand(_, _, _)
parseCommand(ls, startLineNo, fields) ==
    LET c == Command(ls[startLineNo + 1], startLineNo, fields)
    IN  IF fields[1] = opE
        THEN [err |-> Panic, val |-> <<>>, lineNo |-> startLineNo]
        ELSE IF isBlockCommand(fields[1])
        THEN LET sub == parseLinesLoop(ls, startLineNo + 1, <<>>)
             IN  IF isErr(sub.err) THEN sub
                 ELSE IF sub.lineNo >= Len(ls)
                 THEN [err |-> Error("unterminated", -1, <<>>), val |-> <<>>,
                       lineNo |-> sub.lineNo]
                 ELSE [err |-> NoErr,
                       val |-> [c EXCEPT !.subCommands = sub.val,
                                         !.endLine = ls[sub.lineNo + 1]],
                       lineNo |-> sub.lineNo + 1]
        ELSE [err |-> NoErr, val |-> c, lineNo |-> startLineNo + 1]

\* the loop of parseLines, with the commands collected so far
parseLinesLoop(ls, lineNo, commands) ==
    IF lineNo >= Len(ls)
    THEN [err |-> NoErr, val |-> commands, lineNo |-> lineNo]
    ELSE LET fields == splitLine(ls[lineNo + 1])
         IN  IF fields[1] = opE
             THEN [err |-> NoErr, val |-> commands, lineNo |-> lineNo]
             ELSE LET r == parseCommand(ls, lineNo, fields)
                  IN  IF isErr(r.err) THEN r
                      ELSE parseLinesLoop(ls, r.lineNo, Append(commands, r.val))

parseLines(ls, startLineNo) == parseLinesLoop(ls, startLineNo, <<>>)

\* parseProgram, after the scanner has read the lines
parseProgram(ls) ==
    LET r == parseLines(ls, 0)
    IN  IF isErr(r.err) THEN Fail(r.err)
        ELSE IF r.lineNo < Len(ls)
        THEN Fail(Error("EwithoutL", r.lineNo, <<>>))
        ELSE Ok(r.val)

\* ----------------------------------------------------------------- duration

\* command.duration: D and RAMP read their count, L multiplies the sum of
\* its body, TIME is fatal, a block under any other opcode panics.
RECURSIVE duration(_)
RECURSIVE sumDurations(_, _)
sumDurations(cs, acc) ==
    IF cs = <<>> THEN Ok(acc)
    ELSE LET d == duration(Head(cs))
         IN  IF isErr(d.err) THEN d ELSE sumDurations(Tail(cs), plus(acc, d.val))

duration(c) ==
    LET op == c.fields[1]
    IN  IF op = opD
        THEN IF Len(c.fields) < 2 THEN Fail(Panic)
             ELSE parseCount(c.fields[2], c.lineNo)
        ELSE IF op = opRAMP
        THEN IF Len(c.fields) < 5 THEN Fail(Panic)
             ELSE parseCount(c.fields[5], c.lineNo)
        ELSE IF op = opL
        THEN IF Len(c.fields) < 2 THEN Fail(Panic)
             ELSE LET count == parseCount(c.fields[2], c.lineNo)
                  IN  IF isErr(count.err) THEN count
                      ELSE LET d == sumDurations(c.subCommands, intZero)
                           IN  IF isErr(d.err) THEN d
                               ELSE Ok(mul(d.val, count.val))
        ELSE IF op = opTIME
        THEN Fail(Error("TIMEhere", c.lineNo, <<>>))
        ELSE IF hasSubCommands(c) THEN Fail(Panic)
        ELSE Ok(intZero)

\* ------------------------------------------------------------------ printing

\* command.print: the lines fmt.Println writes for one command
RECURSIVE print(_)
RECURSIVE printAll(_)
print(c) ==
    IF hasSubCommands(c)
    THEN <<c.line>> \o printAll(c.subCommands) \o <<c.endLine>>
    ELSE <<c.line>>

\* program.print
printAll(p) == IF p = <<>> THEN <<>> ELSE print(Head(p)) \o printAll(Tail(p))

timeComment == <<" ", " ", " ", " ", ";", " ", "t", "i", "m", "e", " ">>

\* a faulty variant of annotateTimes that adds every duration, of any sign
RECURSIVE annotateLoopAnySign(_, _, _)
annotateLoopAnySign(p, time, written) ==
    IF p = <<>> THEN [err |-> NoErr, out |-> written]
    ELSE LET c == Head(p)
             shown == written \o print(c)
             d == duration(c)
         IN  IF isErr(d.err) THEN [err |-> d.err, out |-> shown]
             ELSE IF ~isZero(d.val)
             THEN annotateLoopAnySign(Tail(p), plus(time, d.val),
                      Append(shown, timeComment \o formatInt(plus(time, d.val))))
             ELSE annotateLoopAnySign(Tail(p), time, shown)

\* the loop of annotateTimes: what is on standard output when it ends, and
\* the fatal error that ended it, if any (the lines written stay written)
RECURSIVE annotateLoop(_, _, _)
annotateLoop(p, time, written) ==
    IF p = <<>> THEN [err |-> NoErr, out |-> written]
    ELSE LET c == Head(p)
             shown == written \o print(c)
             d == duration(c)
         IN  IF isErr(d.err) THEN [err |-> d.err, out |-> shown]
             ELSE IF isPositive(d.val)
             THEN annotateLoop(Tail(p), plus(time, d.val),
                      Append(shown, timeComment \o formatInt(plus(time, d.val))))
             ELSE annotateLoop(Tail(p), time, shown)

annotateTimes(p) == annotateLoop(p, intZero, <<>>)

\* ----------------------------------------------------------- specialization

\* the loop over c.fields[1:] of a CLUBS command, from field i (1-based):
\* whether the club is listed, stopping at the first match
RECURSIVE clubListed(_, _, _, _)
clubListed(fields, i, lineNo, target) ==
    IF i > Len(fields) THEN Ok(FALSE)
    ELSE LET n == parseCount(fields[i], lineNo)
         IN  IF isErr(n.err) THEN n
             ELSE IF n.val = intOf(target) THEN Ok(TRUE)
             ELSE clubListed(fields, i + 1, lineNo, target)

\* a faulty variant of specializeForClub that keeps a surviving CLUBS body nested
RECURSIVE specializeNested(_, _)
specializeNested(p, target) ==
    IF p = <<>> THEN Ok(<<>>)
    ELSE LET c == Head(p)
             found == IF c.fields[1] = opCLUBS
                      THEN clubListed(c.fields, 2, c.lineNo, target)
                      ELSE Ok(TRUE)
         IN  IF isErr(found.err) THEN found
             ELSE LET sub == IF hasSubCommands(c) /\ found.val
                             THEN specializeNested(c.subCommands, target)
                             ELSE Ok(<<>>)
                  IN  IF isErr(sub.err) THEN sub
                      ELSE LET rest == specializeNested(Tail(p), target)
                               here == IF ~found.val THEN <<>>
                                       ELSE IF hasSubCommands(c)
                                       THEN <<[c EXCEPT !.subCommands = sub.val]>>
                                       ELSE <<c>>
                           IN  IF isErr(rest.err) THEN rest
                               ELSE Ok(here \o rest.val)

\* program.specializeForClub
RECURSIVE specializeForClub(_, _)
specializeForClub(p, target) ==
    IF p = <<>> THEN Ok(<<>>)
    ELSE LET c == Head(p)
             found == IF c.fields[1] = opCLUBS
                      THEN clubListed(c.fields, 2, c.lineNo, target)
                      ELSE Ok(TRUE)
         IN  IF isErr(found.err) THEN found
             ELSE LET sub == IF hasSubCommands(c) /\ found.val
                             THEN specializeForClub(c.subCommands, target)
                             ELSE Ok(<<>>)
                  IN  IF isErr(sub.err) THEN sub
                      ELSE LET rest == specializeForClub(Tail(p), target)
                               here == IF ~found.val THEN <<>>
                                       ELSE IF c.fields[1] = opCLUBS THEN sub.val
                                       ELSE IF hasSubCommands(c)
                                       THEN <<[c EXCEPT !.subCommands = sub.val]>>
                                       ELSE <<c>>
                           IN  IF isErr(rest.err) THEN rest
                               ELSE Ok(here \o rest.val)

\* ------------------------------------------------------------ time resolver

\* the loop of resolveTime: the new commands, and the values the counter
\* time took (0 first, then its value after each command it got past)
RECURSIVE resolveTimeLoop(_, _, _, _)
resolveTimeLoop(p, time, newCommands, seen) ==
    IF p = <<>> THEN [err |-> NoErr, val |-> newCommands, times |-> seen]
    ELSE LET c == Head(p)
         IN  IF c.fields[1] = opTIME
             THEN IF Len(c.fields) < 2
                  THEN [err |-> Panic, val |-> newCommands, times |-> seen]
                  ELSE LET target == parseCount(c.fields[2], c.lineNo)
                       IN  IF isErr(target.err)
                           THEN [err |-> target.err, val |-> newCommands,
                                 times |-> seen]
                           ELSE IF less(target.val, time)
                           THEN [err |-> Error("backInTime", c.lineNo, formatInt(time)),
                                 val |-> newCommands, times |-> seen]
                           ELSE IF target.val = time
                           THEN resolveTimeLoop(Tail(p), time, newCommands,
                                                Append(seen, time))
                           ELSE LET fields == <<opD, formatInt(minus(target.val, time))>>
                                    d == Command(Join(fields), c.lineNo, fields)
                                IN  resolveTimeLoop(Tail(p), target.val,
                                        Append(newCommands, d),
                                        Append(seen, target.val))
             ELSE LET d == duration(c)
                  IN  IF isErr(d.err)
                      THEN [err |-> d.err, val |-> Append(newCommands, c),
                            times |-> seen]
                      ELSE resolveTimeLoop(Tail(p), plus(time, d.val),
                               Append(newCommands, c),
                               Append(seen, plus(time, d.val)))

resolveTime(p) == resolveTimeLoop(p, intZero, <<>>, <<intZero>>)

\* ------------------------------------------------------------ big numbers
\* A natural number of any size is its limbs of LimbBits bits, the least
\* significant first, at least one of them.

\* limbs i..n of raw plus carry, and the limbs of the carry out of limb n
RECURSIVE bigCarried(_, _, _, _)
bigCarried(raw, i, n, carry) ==
    IF i > n
    THEN IF carry = 0 THEN <<>>
         ELSE <<carry % LimbBase>> \o bigCarried(raw, i, n, carry \div LimbBase)
    ELSE Bind(raw[i] + carry,
              LAMBDA t : <<t % LimbBase>>
                             \o bigCarried(raw, i + 1, n, t \div LimbBase))

\* x * v + d for numbers v and d below 2^17
bigMulAdd(x, v, d) ==
    bigCarried([i \in 1..Len(x) |-> x[i] * v + (IF i = 1 THEN d ELSE 0)],
               1, Len(x), 0)

\* the sum of the products x[i] * y[k + 1 - i] for i in 1..n
RECURSIVE bigColumn(_, _, _, _)
bigColumn(x, y, k, n) ==
    IF n = 0 THEN 0
    ELSE (IF k + 1 - n \in 1..Len(y) THEN x[n] * y[k + 1 - n] ELSE 0)
             + bigColumn(x, y, k, n - 1)

\* x * y, for x and y of up to five limbs
bigMul(x, y) ==
    bigCarried([k \in 1..(Len(x) + Len(y) - 1) |->
                   bigColumn(x, y, k, IF k < Len(x) THEN k ELSE Len(x))],
               1, Len(x) + Len(y) - 1, 0)

\* limbs 1..i of the quotient, and the remainder, of dividing by d < 2^17 the
\* number whose upper limbs left the remainder rem
RECURSIVE bigDiv(_, _, _, _)
bigDiv(x, d, i, rem) ==
    IF i = 0 THEN [q |-> <<>>, r |-> rem]
    ELSE Bind(rem * LimbBase + x[i],
              LAMBDA cur :
                  Bind(bigDiv(x, d, i - 1, cur % d),
                       LAMBDA rest : [q |-> Append(rest.q, cur \div d),
                                      r |-> rest.r]))

\* x without the zero limbs above its last limb that is not zero
bigTrim(x) ==
    IF \A i \in 1..Len(x) : x[i] = 0 THEN <<0>>
    ELSE SubSeq(x, 1, CHOOSE i \in 1..Len(x) :
                          x[i] # 0 /\ \A j \in (i + 1)..Len(x) : x[j] = 0)

\* x * 2^(LimbBits * k)
bigShift(x, k) == [i \in 1..k |-> 0] \o x

\* the decimal digits taken in one step of a conversion
ChunkDigits == 4

\* the number a string of digits spells
RECURSIVE bigOfDigits(_)
bigOfDigits(s) ==
    IF Len(s) <= ChunkDigits THEN bigMulAdd(<<0>>, 1, digitsValue(s))
    ELSE Bind(bigOfDigits(SubSeq(s, 1, Len(s) - ChunkDigits)),
              LAMBDA upper :
                  bigMulAdd(upper, 10 ^ ChunkDigits,
                            digitsValue(SubSeq(s, Len(s) - ChunkDigits + 1,
                                               Len(s)))))

\* the number the first k of bits spell, for k up to LimbBits
RECURSIVE bitsValueTo(_, _)
bitsValueTo(bits, k) ==
    IF k = 0 THEN 0 ELSE 2 * bitsValueTo(bits, k - 1) + bits[k]

bitsValue(bits) == bitsValueTo(bits, Len(bits))

\* the limb of bits that holds its bits 13c .. 13c + 12, counted from the last
limb(bits, c) ==
    LET hi == Len(bits) - LimbBits * c
        lo == IF hi - LimbBits + 1 < 1 THEN 1 ELSE hi - LimbBits + 1
    IN  bitsValue(SubSeq(bits, lo, hi))

\* the first n limbs of the number a sequence of bits spells, the most
\* significant bit first
limbsOfBits(bits, n) == [c \in 1..n |-> limb(bits, c - 1)]

\* the bits of x, the most significant first
bitsOfLimbs(x) ==
    SubSeq([j \in 1..(LimbBits * Len(x)) |->
               (x[Len(x) - ((j - 1) \div LimbBits)]
                    \div (2 ^ (LimbBits - 1 - ((j - 1) % LimbBits)))) % 2],
           1, LimbBits * Len(x))

\* ---------------------------------------------------- float64 arithmetic
\* resolveColor computes int(float64(c) * (float64(percent) / 100.0)) and
\* readLabels int(l.Start * 100).  A float64 above zero is [m, e]: m its 53
\* significand bits, most significant first, e the binary exponent of the
\* last of them (value = m * 2^e); the sign is kept beside it.  Each
\* operation rounds its exact result to the nearest such value, ties to the
\* even significand, as IEEE 754 and Go do.

MantissaBits == 53

\* the largest binary exponent of the first significand bit of a float64
MaxExponent == 1023

\* the first position where bits holds 1
firstOne(bits) ==
    CHOOSE i \in 1..Len(bits) : bits[i] = 1 /\ \A j \in 1..(i - 1) : bits[j] = 0

\* bits + 1, one bit longer when every bit is 1
incBits(bits) ==
    IF \A i \in 1..Len(bits) : bits[i] = 1
    THEN <<1>> \o [i \in 1..Len(bits) |-> 0]
    ELSE Bind(CHOOSE i \in 1..Len(bits) :
                  bits[i] = 0 /\ \A j \in (i + 1)..Len(bits) : bits[j] = 1,
              LAMBDA z : [i \in 1..Len(bits) |->
                             IF i < z THEN bits[i] ELSE IF i = z THEN 1 ELSE 0])

\* a significand of 53 bits again after a rounding step carried out of it
normalize(bits, e) ==
    IF Len(bits) > MantissaBits
    THEN [m |-> SubSeq(bits, 1, MantissaBits), e |-> e + 1]
    ELSE [m |-> bits, e |-> e]

\* bits rounded up or not, as a float64 with exponent e
rounded(bits, up, e) ==
    Bind(bits, LAMBDA m : normalize(IF up THEN incBits(m) ELSE m, e))

\* The float64 nearest to (b + f) * 2^e, b the number that bits spells from
\* its first 1 on and f a fraction below 1 that is above zero when sticky.
\* With bits of 53 or fewer places after the first 1, f must be zero.
roundBits(bits, sticky, e) ==
    Bind(SubSeq(bits, firstOne(bits), Len(bits)), LAMBDA b :
        IF Len(b) <= MantissaBits
        THEN [m |-> b \o [i \in 1..(MantissaBits - Len(b)) |-> 0],
              e |-> e - (MantissaBits - Len(b))]
        ELSE LET half == b[MantissaBits + 1] = 1
                 rest == sticky \/ \E i \in (MantissaBits + 2)..Len(b) : b[i] = 1
                 up == half /\ (rest \/ b[MantissaBits] = 1)
             IN  rounded(SubSeq(b, 1, MantissaBits), up,
                         e + Len(b) - MantissaBits))

\* the float64 nearest to x * 2^e for a big number x above zero
floatOfBig(x, sticky, e) ==
    Bind(bitsOfLimbs(x), LAMBDA bits : roundBits(bits, sticky, e))

\* the magnitude of an int as a big number
magnitude(a) == IF isNegative(a) THEN negate(a) ELSE a

\* float64(a) for an int a that is not zero, without its sign
floatOfInt(a) == floatOfBig(magnitude(a), FALSE, 0)

\* the significand of a float64 as a big number
significand(x) == limbsOfBits(x.m, IntLimbs)

\* x / 100.0
floatDiv100(x) ==
    Bind(bigShift(significand(x), IntLimbs), LAMBDA n :
        Bind(bigDiv(n, 100, Len(n), 0), LAMBDA d :
            floatOfBig(bigTrim(d.q), d.r # 0, x.e - LimbBits * IntLimbs)))

\* x * y
floatMul(x, y) ==
    Bind(bigMul(significand(x), significand(y)), LAMBDA prod :
        floatOfBig(prod, FALSE, x.e + y.e))

\* the quotient of x by 10^places, with whether the divisions left anything
RECURSIVE bigDivTens(_, _, _)
bigDivTens(x, places, sticky) ==
    IF places = 0 THEN [q |-> x, sticky |-> sticky]
    ELSE Bind(IF places < ChunkDigits THEN places ELSE ChunkDigits, LAMBDA k :
             Bind(bigDiv(x, 10 ^ k, Len(x), 0), LAMBDA d :
                 Bind(sticky \/ d.r # 0, LAMBDA left :
                     bigDivTens(bigTrim(d.q), places - k, left))))

\* strconv.ParseFloat of the decimal number above zero that digits spells
\* with the given count of decimal places: the nearest float64.  The number
\* is shifted up by enough limbs for the quotient to keep more than 53 bits
\* (ten is below 2^4).
parseFloat(digits, places) ==
    Bind(IntLimbs + (4 * places + LimbBits - 1) \div LimbBits, LAMBDA shift :
        Bind(bigShift(bigTrim(bigOfDigits(digits)), shift), LAMBDA n :
            Bind(bigDivTens(n, places, FALSE), LAMBDA d :
                floatOfBig(d.q, d.sticky, -(LimbBits * shift)))))

\* a float64 too large to be one: ParseFloat returns a range error
outOfRange(x) == x.e + MantissaBits - 1 > MaxExponent

\* the builds whose conversion of a float64 outside int differs
Builds == {"amd64", "arm64"}

MinInt == [i \in 1..IntLimbs |-> IF i = IntLimbs THEN TopBase \div 2 ELSE 0]
MaxInt == [i \in 1..IntLimbs |-> IF i = IntLimbs THEN TopBase \div 2 - 1
                                 ELSE LimbBase - 1]

\* int(x) for the float64 x, negative or not: the integer part.  The result
\* for a value outside int depends on the build: amd64 gives the smallest
\* int, arm64 the nearest int.
floatToInt(x, negative, arch) ==
    IF -x.e >= MantissaBits THEN intZero
    ELSE IF MantissaBits + x.e >= 64
            /\ ~(/\ MantissaBits + x.e = 64
                 /\ negative
                 /\ \A i \in 2..MantissaBits : x.m[i] = 0)
    THEN IF arch = "arm64" /\ ~negative THEN MaxInt ELSE MinInt
    ELSE Bind(IF x.e >= 0 THEN x.m \o [i \in 1..x.e |-> 0]
              ELSE SubSeq(x.m, 1, MantissaBits + x.e),
              LAMBDA whole :
                  Bind(limbsOfBits(whole, IntLimbs), LAMBDA a :
                      IF negative THEN negate(a) ELSE a))

\* int(float64(c) * p) with p == float64(percent) / 100.0, percent >= 0
scaleChannel(c, percent, arch) ==
    IF isZero(c) \/ isZero(percent) THEN intZero
    ELSE Bind(floatDiv100(floatOfInt(percent)), LAMBDA p :
             Bind(floatMul(floatOfInt(c), p), LAMBDA x :
                 floatToInt(x, isNegative(c), arch)))

\* ----------------------------------------------------------- color resolver

\* FindStringSubmatch of ^([^%]+)(\s+(\d+)%)?$ on description: whether it
\* matches, and the groups 1 and 3.  The first group is greedy, so of several
\* blanks before the percentage it keeps all but the last.
colorMatch(description) ==
    LET n == Len(description)
        pos == IndexOf(description, "%")
    IN  IF pos = -1
        THEN [ok |-> n >= 1, name |-> description, percent |-> <<>>]
        ELSE IF /\ pos = n - 1
                /\ \E k \in 2..(n - 2) :
                      /\ description[k] \in RegexSpace
                      /\ \A i \in (k + 1)..(n - 1) : isDigit(description[i])
        THEN LET k == CHOOSE j \in 2..(n - 2) :
                          /\ description[j] \in RegexSpace
                          /\ \A i \in (j + 1)..(n - 1) : isDigit(description[i])
             IN  [ok |-> TRUE, name |-> SubSeq(description, 1, k - 1),
                  percent |-> SubSeq(description, k + 1, n - 1)]
        ELSE [ok |-> FALSE, name |-> <<>>, percent |-> <<>>]

color(r, g, b) == [r |-> r, g |-> g, b |-> b]

\* the three fields of color c, scaled when the description has a percentage
colorFieldsOf(c, percent, lineNo) ==
    IF percent # <<>>
    THEN Bind(parseNumber(percent, lineNo), LAMBDA p :
             IF isErr(p.err) THEN p
             ELSE Ok(<<formatInt(scaleChannel(c.r, p.val, goarch)),
                       formatInt(scaleChannel(c.g, p.val, goarch)),
                       formatInt(scaleChannel(c.b, p.val, goarch))>>))
    ELSE Ok(<<formatInt(c.r), formatInt(c.g), formatInt(c.b)>>)

\* resolveColor: the three fields of the color a description names
resolveColor(cmap, description, lineNo) ==
    Bind(colorMatch(description), LAMBDA m :
        IF ~m.ok THEN Fail(Panic)
        ELSE IF m.name \notin DOMAIN cmap
        THEN Fail(Error("colorUndefined", lineNo, m.name))
        ELSE colorFieldsOf(cmap[m.name], m.percent, lineNo))

\* the namespace cmap with name bound to the color of three fields
withColor(cmap, name, colorFields, lineNo) ==
    LET r == parseNumber(colorFields[1], lineNo)
        g == parseNumber(colorFields[2], lineNo)
        b == parseNumber(colorFields[3], lineNo)
    IN  IF isErr(r.err) THEN r
        ELSE IF isErr(g.err) THEN g
        ELSE IF isErr(b.err) THEN b
        ELSE Ok([n \in DOMAIN cmap \cup {name} |->
                   IF n = name THEN color(r.val, g.val, b.val) ELSE cmap[n]])

\* the case "COLOR" of resolveColorInCommands: the namespace with the color
\* of command c added
defineColor(c, cmap, allowDefine) ==
    IF ~allowDefine THEN Fail(Error("cantDefine", c.lineNo, <<>>))
    ELSE IF Len(c.fields) < 2 THEN Fail(Panic)
    ELSE IF c.fields[2] \in DOMAIN cmap
    THEN Fail(Error("redefined", -1, c.fields[2]))
    ELSE Bind(IF Len(c.fields) = 3 THEN resolveColor(cmap, c.fields[3], c.lineNo)
              ELSE IF Len(c.fields) < 5 THEN Fail(Panic)
              ELSE Ok(SubSeq(c.fields, 3, 5)),
              LAMBDA colorFields :
                  IF isErr(colorFields.err) THEN colorFields
                  ELSE withColor(cmap, c.fields[2], colorFields.val, c.lineNo))

\* command c with its fields, and its line joined from them
withFields(c, fields) == [c EXCEPT !.fields = fields, !.line = Join(fields)]

\* the cases "C" and "RAMP": the command with a color expression resolved
recolor(c, cmap) ==
    IF c.fields[1] = opC /\ Len(c.fields) = 2
    THEN Bind(resolveColor(cmap, c.fields[2], c.lineNo), LAMBDA clr :
             IF isErr(clr.err) THEN clr
             ELSE Ok(withFields(c, <<opC, clr.val[1], clr.val[2], clr.val[3]>>)))
    ELSE IF c.fields[1] = opRAMP /\ Len(c.fields) = 3
    THEN Bind(resolveColor(cmap, c.fields[2], c.lineNo), LAMBDA clr :
             IF isErr(clr.err) THEN clr
             ELSE Ok(withFields(c, <<opRAMP, clr.val[1], clr.val[2], clr.val[3],
                                     c.fields[3]>>)))
    ELSE Ok(c)

\* the result of resolveColorInCommands
Colored(e, commands, cmap) == [err |-> e, val |-> commands, colors |-> cmap]

\* a faulty variant of resolveColorInCommands that lets nested scopes define colors
RECURSIVE colorLoopDefineAnywhere(_, _, _, _)
colorLoopDefineAnywhere(cs, cmap, allowDefine, newCommands) ==
    IF cs = <<>> THEN Colored(NoErr, newCommands, cmap)
    ELSE IF Head(cs).fields[1] = opCOLOR
    THEN Bind(defineColor(Head(cs), cmap, allowDefine), LAMBDA def :
             IF isErr(def.err) THEN Colored(def.err, newCommands, cmap)
             ELSE colorLoopDefineAnywhere(Tail(cs), def.val, allowDefine,
                                          newCommands))
    ELSE IF Head(cs).fields[1] \in {opC, opRAMP}
    THEN Bind(recolor(Head(cs), cmap), LAMBDA newC :
             IF isErr(newC.err) THEN Colored(newC.err, newCommands, cmap)
             ELSE colorLoopDefineAnywhere(Tail(cs), cmap, allowDefine,
                                          Append(newCommands, newC.val)))
    ELSE IF hasSubCommands(Head(cs))
    THEN Bind(colorLoopDefineAnywhere(Head(cs).subCommands, cmap, TRUE, <<>>),
              LAMBDA sub :
                  IF isErr(sub.err) THEN Colored(sub.err, newCommands, cmap)
                  ELSE colorLoopDefineAnywhere(Tail(cs), sub.colors, allowDefine,
                           Append(newCommands,
                                  [Head(cs) EXCEPT !.subCommands = sub.val])))
    ELSE colorLoopDefineAnywhere(Tail(cs), cmap, allowDefine,
                                 Append(newCommands, Head(cs)))

\* the loop of resolveColorInCommands: the new commands and the namespace,
\* which the Go map shares between the call and its caller
RECURSIVE resolveColorLoop(_, _, _, _)
resolveColorLoop(cs, cmap, allowDefine, newCommands) ==
    IF cs = <<>> THEN Colored(NoErr, newCommands, cmap)
    ELSE IF Head(cs).fields[1] = opCOLOR
    THEN Bind(defineColor(Head(cs), cmap, allowDefine), LAMBDA def :
             IF isErr(def.err) THEN Colored(def.err, newCommands, cmap)
             ELSE resolveColorLoop(Tail(cs), def.val, allowDefine, newCommands))
    ELSE IF Head(cs).fields[1] \in {opC, opRAMP}
    THEN Bind(recolor(Head(cs), cmap), LAMBDA newC :
             IF isErr(newC.err) THEN Colored(newC.err, newCommands, cmap)
             ELSE resolveColorLoop(Tail(cs), cmap, allowDefine,
                                   Append(newCommands, newC.val)))
    ELSE IF hasSubCommands(Head(cs))
    THEN Bind(resolveColorLoop(Head(cs).subCommands, cmap, FALSE, <<>>),
              LAMBDA sub :
                  IF isErr(sub.err) THEN Colored(sub.err, newCommands, cmap)
                  ELSE resolveColorLoop(Tail(cs), sub.colors, allowDefine,
                           Append(newCommands,
                                  [Head(cs) EXCEPT !.subCommands = sub.val])))
    ELSE resolveColorLoop(Tail(cs), cmap, allowDefine,
                          Append(newCommands, Head(cs)))

resolveColorInCommands(cs, cmap, allowDefine) ==
    resolveColorLoop(cs, cmap, allowDefine, <<>>)

\* the empty map of make(map[string]color)
NoColors == [n \in {} |-> color(0, 0, 0)]

\* program.resolveColor
resolveProgramColor(p) == resolveColorInCommands(p, NoColors, TRUE)

\* ----------------------------------------------------------- label resolver

\* regexp.MatchString("^\\d+$", s)
allDigits(s) == s # <<>> /\ \A i \in 1..Len(s) : isDigit(s[i])

\* program.resolveLabels
RECURSIVE resolveLabels(_, _)
resolveLabels(p, labelMap) ==
    IF p = <<>> THEN Ok(<<>>)
    ELSE LET c == Head(p)
             newC ==
                 IF c.fields[1] = opTIME
                 THEN IF Len(c.fields) < 2 THEN Fail(Panic)
                      ELSE IF allDigits(c.fields[2]) THEN Ok(c)
                      ELSE IF c.fields[2] \notin DOMAIN labelMap
                      THEN Fail(Error("labelUndefined", -1, c.fields[2]))
                      ELSE LET fields == <<opTIME, formatInt(labelMap[c.fields[2]].start)>>
                           IN  Ok([c EXCEPT !.fields = fields, !.line = Join(fields)])
                 ELSE IF hasSubCommands(c)
                 THEN LET sub == resolveLabels(c.subCommands, labelMap)
                      IN  IF isErr(sub.err) THEN sub
                          ELSE Ok([c EXCEPT !.subCommands = sub.val])
                 ELSE Ok(c)
         IN  IF isErr(newC.err) THEN newC
             ELSE LET rest == resolveLabels(Tail(p), labelMap)
                  IN  IF isErr(rest.err) THEN rest
                      ELSE Ok(<<newC.val>> \o rest.val)

\* ------------------------------------------------------------ label track
\* The project file is [exists, wellFormed, labels]; a label of it is
\* [title, t, t1], the two times the decimal numbers of the XML attributes:
\* [negative, digits, places] is the number that digits spells, with the
\* given count of them after the decimal point.

isZeroDecimal(d) == \A i \in 1..Len(d.digits) : d.digits[i] = "0"

\* the attribute is a float64: Decode returns an error for a number too large
decodes(d) ==
    isZeroDecimal(d) \/ ~outOfRange(parseFloat(d.digits, d.places))

\* int(x * 100) for the float64 x that the decimal d parses to
centiseconds(d, arch) ==
    IF isZeroDecimal(d) THEN intZero
    ELSE Bind(parseFloat(d.digits, d.places), LAMBDA x :
             Bind(floatMul(x, floatOfInt(intOf(100))), LAMBDA y :
                 floatToInt(y, d.negative, arch)))

label(start, end) == [start |-> start, end |-> end]

\* the empty map of make(map[string]label), and the nil map
NoLabels == [n \in {} |-> label(intZero, intZero)]

\* the loop of readLabels over project.Labels
RECURSIVE readLabelsLoop(_, _, _)
readLabelsLoop(ls, labelMap, arch) ==
    IF ls = <<>> THEN Ok(labelMap)
    ELSE LET l == Head(ls)
         IN  IF l.title \in DOMAIN labelMap
             THEN Fail(Error("labelRedefined", -1, l.title))
             ELSE readLabelsLoop(Tail(ls),
                      [n \in DOMAIN labelMap \cup {l.title} |->
                          IF n = l.title
                          THEN label(centiseconds(l.t, arch),
                                     centiseconds(l.t1, arch))
                          ELSE labelMap[n]],
                      arch)

\* readLabels: decodeErr tells the error Decode returned, with a nil map
readLabels(project, arch) ==
    IF \/ ~project.wellFormed
       \/ \E i \in 1..Len(project.labels) :
             ~decodes(project.labels[i].t) \/ ~decodes(project.labels[i].t1)
    THEN [err |-> NoErr, val |-> NoLabels, decodeErr |-> TRUE]
    ELSE LET r == readLabelsLoop(project.labels, NoLabels, arch)
         IN  [err |-> r.err, val |-> r.val, decodeErr |-> FALSE]

\* ------------------------------------------------------------------- inputs
\* The input lines are written with, and the expectations computed in, the
\* numbers of TLC, which hold the small values of the pools.

\* the unsigned number of limbs i..IntLimbs of a, as a number of TLC
RECURSIVE limbsValue(_, _)
limbsValue(a, i) ==
    IF i > IntLimbs THEN 0 ELSE a[i] + LimbBase * limbsValue(a, i + 1)

\* the number an int holds, as a number of TLC
intValue(a) ==
    IF isNegative(a) THEN -limbsValue(negate(a), 1) ELSE limbsValue(a, 1)

RECURSIVE natToStr(_)
natToStr(n) ==
    IF n < 10 THEN <<Digits[n + 1]>>
    ELSE natToStr(n \div 10) \o <<Digits[(n % 10) + 1]>>

\* fmt.Sprintf("%d", n) for a number of TLC
Itoa(n) == IF n < 0 THEN <<"-">> \o natToStr(-n) ELSE natToStr(n)


lnColorRed == <<"C", "O", "L", "O", "R", ",", "r", "e", "d", ",", "2", "0", "0", ",", "1", "0", "0", ",", "4", "0">>
lnL2 == <<"L", ",", "2">>
lnCRed50 == <<"C", ",", "r", "e", "d", " ", "5", "0", "%">>
lnD100 == <<"D", ",", "1", "0", "0">>
lnD50 == <<"D", ",", "5", "0">>
lnDNeg == <<"D", ",", "-", "3", "0">>
lnD0 == <<"D", ",", "0">>
lnDx == <<"D", ",", "x">>
lnE == <<"E">>
lnEnd == <<" ", "E", " ", ";", " ", "e", "n", "d">>
lnEmpty == <<>>
lnComment == <<";", " ", "E">>
lnTime0 == <<"T", "I", "M", "E", ",", "0">>
lnTime50 == <<"T", "I", "M", "E", ",", "5", "0">>
lnTime100 == <<"T", "I", "M", "E", ",", "1", "0", "0">>
lnTime150 == <<"T", "I", "M", "E", ",", "1", "5", "0">>
lnTime300 == <<"T", "I", "M", "E", ",", "3", "0", "0">>
lnTimeLbl == <<"T", "I", "M", "E", ",", "c", "h", "o", "r", "u", "s">>
lnClubs0 == <<"C", "L", "U", "B", "S", ",", "0">>
lnClubs1 == <<"C", "L", "U", "B", "S", ",", "1">>
lnClubs2 == <<"C", "L", "U", "B", "S", ",", "2">>
lnClubs01 == <<"C", "L", "U", "B", "S", ",", "0", ",", "1">>
lnClubs10 == <<"C", "L", "U", "B", "S", ",", " ", "1", ",", "0">>
lnClubsNeg == <<"C", "L", "U", "B", "S", ",", "-", "1", ",", "2">>
lnClubs2x == <<"C", "L", "U", "B", "S", ",", "2", ",", "x">>
lnRampRed == <<"R", "A", "M", "P", ",", "r", "e", "d", ",", "5", "0">>

\* lines whose numbers lie at the ends of the range of int
lnD1 == <<"D", ",", "1">>
lnDNeg2 == <<"D", ",", "-", "2">>
lnTime5 == <<"T", "I", "M", "E", ",", "5">>
lnDMax == <<"D", ",">> \o MaxIntDigits
lnTimeMax == <<"T", "I", "M", "E", ",">> \o MaxIntDigits
lnColorMax ==
    <<"C", "O", "L", "O", "R", ",", "r", "e", "d", ",">> \o MaxIntDigits
        \o <<",", "1", "0", "0", ",", "4", "0">>
lnCRed200 == <<"C", ",", "r", "e", "d", " ", "2", "0", "0", "%">>
lnDHalf ==
    <<"D", ",", "4", "6", "1", "1", "6", "8", "6", "0", "1", "8", "4", "2", "7",
      "3", "8", "7", "9", "0", "4">>

\* the label track main reads: chorus from 12.5 s to 14 s
chorus == <<"c", "h", "o", "r", "u", "s">>
decimal(negative, digits, places) ==
    [negative |-> negative, digits |-> digits, places |-> places]
lblChorus ==
    [title |-> chorus, t |-> decimal(FALSE, <<"1", "2", "5">>, 1),
     t1 |-> decimal(FALSE, <<"1", "4">>, 0)]
lblChorusAgain ==
    [title |-> chorus, t |-> decimal(FALSE, <<"0", "2", "9">>, 2),
     t1 |-> decimal(FALSE, <<"1">>, 0)]

ProjectFile(exists, wellFormed, track) ==
    [exists |-> exists, wellFormed |-> wellFormed, labels |-> track]

GoodFile == ProjectFile(TRUE, TRUE, <<lblChorus>>)
NoFile == ProjectFile(FALSE, FALSE, <<>>)
MalformedFile == ProjectFile(TRUE, FALSE, <<>>)
DuplicateFile == ProjectFile(TRUE, TRUE, <<lblChorus, lblChorusAgain>>)

\* a label at 1.000015 s, and one at 10^17 s, whose centiseconds no int holds
lblFine ==
    [title |-> chorus, t |-> decimal(FALSE, <<"1", "0", "0", "0", "0", "1", "5">>, 6),
     t1 |-> decimal(TRUE, <<"0", "0", "0", "0", "0", "1">>, 5)]
lblFar ==
    [title |-> chorus,
     t |-> decimal(FALSE, <<"1", "0", "0", "0", "0", "0", "0", "0", "0", "0", "0",
                            "0", "0", "0", "0", "0", "0", "0">>, 0),
     t1 |-> decimal(FALSE, <<"2">>, 0)]
FineFile == ProjectFile(TRUE, TRUE, <<lblFine>>)
FarFile == ProjectFile(TRUE, TRUE, <<lblFar>>)

\* the states einszweipolizei.aup can be in
Files == {GoodFile, NoFile, MalformedFile, DuplicateFile, FineFile, FarFile}

\* the club main specializes for
MainClub == 1

\* the longest program drawn line by line from a pool
MaxLines == 3
MaxPrintLines == 5
MaxClubLines == 4

\* the largest club number specialized for
MaxClub == 2

\* the longest number of a command whose duration the specification defines
MaxPlainDigits == 4

\* the channel values and percentages of the color specification
MaxChannel == 255
MaxPercent == 100

Programs(pool, n) == UNION {[1..k -> pool] : k \in 0..n}

LinePool ==
    {lnL2, lnE, lnEnd, lnD100, lnDNeg, lnD0, lnDx, lnTime0, lnTime50, lnTime150,
     lnTimeLbl, lnClubs0, lnClubs1, lnClubs2, lnColorRed, lnCRed50, lnRampRed}

\* the end-to-end scenario of the specification
EndToEnd == <<lnColorRed, lnL2, lnCRed50, lnD100, lnE, lnTime300, lnD50>>

TimeTargets == <<lnTime0, lnTime150, lnTime150, lnTime300>>

Scenarios ==
    {EndToEnd, TimeTargets,
     <<lnTime100, lnTime50>>,
     <<lnD100, lnTime150, lnTime150, lnTime300>>,
     <<lnD100, lnDNeg, lnTime100, lnD50>>,
     <<lnClubs1, lnL2, lnColorRed, lnE, lnE>>,
     <<lnL2, lnClubs1, lnColorRed, lnE, lnE>>,
     <<lnClubs1, lnColorRed, lnE, lnCRed50>>,
     <<lnClubs2, lnColorRed, lnE, lnCRed50>>,
     <<lnColorRed, lnClubs1, lnL2, lnRampRed, lnE, lnE, lnTime150>>,
     <<lnL2, lnL2, lnD50, lnE, lnD100, lnE>>,
     <<lnL2, lnD100, lnTime150, lnE>>,
     <<lnDMax, lnD1>>,
     <<lnDMax, lnD1, lnTime5>>,
     <<lnDNeg2, lnTimeMax>>,
     <<lnL2, lnDHalf, lnE>>,
     <<lnColorMax, lnCRed50>>,
     <<lnColorMax, lnCRed200>>}

\* the lines run against every state of the project file
FilePool == {lnD100, lnTimeLbl, lnTime150}

PrintPool == {lnL2, lnE, lnEnd, lnD100, lnClubs1, lnEmpty, lnComment}

ClubPool ==
    {lnClubs0, lnClubs1, lnClubs01, lnClubs10, lnClubsNeg, lnClubs2x, lnL2, lnE,
     lnD100, lnD50}

\* CLUBS blocks between, inside and around commands that differ
ClubScenarios ==
    {<<lnD1, lnClubs10, lnD100, lnE, lnD50>>,
     <<lnD1, lnClubs1, lnD100, lnD50, lnE, lnClubs2, lnD50, lnD100, lnE, lnD1>>,
     <<lnL2, lnD50, lnClubs1, lnD100, lnD1, lnE, lnD50, lnE>>,
     <<lnClubs1, lnD50, lnClubs2, lnD100, lnE, lnD1, lnE, lnD100>>,
     <<lnD50, lnClubs2, lnD100, lnClubs2x, lnD1, lnE, lnE, lnD1>>,
     <<lnClubs1, lnL2, lnClubs1, lnD100, lnE, lnD50, lnE, lnE>>,
     <<lnD50, lnClubs01, lnD100, lnE, lnD1>>,
     <<lnD50, lnClubs1, lnE, lnClubs2, lnE, lnD1>>}

\* COLOR,red,<r>,100,40 and C,red <percent>%
colorLine(r) ==
    <<"C", "O", "L", "O", "R", ",", "r", "e", "d", ",">> \o Itoa(r)
        \o <<",", "1", "0", "0", ",", "4", "0">>

percentLine(percent) == <<"C", ",", "r", "e", "d", " ">> \o Itoa(percent) \o <<"%">>

ColorPrograms ==
    {<<colorLine(r), percentLine(p)>> : r \in 0..MaxChannel, p \in 0..MaxPercent}
        \cup {<<colorLine(r), <<"C", ",", "r", "e", "d">>>> : r \in 0..MaxChannel}

\* ------------------------------------------------------------ state machine
\* pc names the step main runs next, "done" after the last.  A fatal error
\* ends the process: err is set, pc stays on the step that died, and nothing
\* runs any more.

Start(arch, f, ls, target, stage) ==
    /\ goarch = arch
    /\ file = f
    /\ lines = ls
    /\ club = target
    /\ pc = stage
    /\ labels = NoLabels
    /\ parsed = <<>>
    /\ specialized = <<>>
    /\ colored = <<>>
    /\ colors = NoColors
    /\ delabeled = <<>>
    /\ resolved = <<>>
    /\ times = <<>>
    /\ out = <<>>
    /\ err = NoErr

\* every program of the line pool with the good project file, and the
\* programs of the file pool and the scenarios with every project file on
\* every build
Init ==
    \/ \E ls \in Programs(LinePool, MaxLines) :
           Start("amd64", GoodFile, ls, MainClub, "read")
    \/ \E arch \in Builds, f \in Files,
          ls \in Programs(FilePool, MaxLines) \cup Scenarios :
           Start(arch, f, ls, MainClub, "read")

InitPrint ==
    \E ls \in Programs(PrintPool, MaxPrintLines) :
        Start("amd64", GoodFile, ls, MainClub, "parse")

InitClub ==
    \E ls \in Programs(ClubPool, MaxClubLines) \cup ClubScenarios,
       target \in -1..MaxClub :
        Start("amd64", GoodFile, ls, target, "parse")

InitColor ==
    \E ls \in ColorPrograms : Start("amd64", GoodFile, ls, MainClub, "read")

Running(stage) == pc = stage /\ ~isErr(err)

\* readLabels of every project file on every build, computed once
labelTracks == [arch \in Builds |-> [f \in Files |-> readLabels(f, arch)]]

\* file, err := os.Open(...); labels, err := readLabels(file): a file that
\* can't be opened is fatal, a label track that can't be decoded leaves the
\* nil map and main goes on
ReadLabels ==
    /\ Running("read")
    /\ IF ~file.exists
       THEN /\ err' = Error("open", -1, <<>>)
            /\ UNCHANGED <<pc, labels>>
       ELSE \E r \in {labelTracks[goarch][file]} :
                IF isErr(r.err)
                THEN /\ err' = r.err
                     /\ UNCHANGED <<pc, labels>>
                ELSE /\ labels' = r.val
                     /\ pc' = "parse"
                     /\ UNCHANGED err
    /\ UNCHANGED <<goarch, file, lines, club, parsed, specialized, colored, colors,
                   delabeled, resolved, times, out>>

\* program := parseProgram(os.Stdin)
Parse ==
    /\ Running("parse")
    /\ \E r \in {parseProgram(lines)} :
           IF isErr(r.err)
           THEN /\ err' = r.err
                /\ UNCHANGED <<pc, parsed>>
           ELSE /\ parsed' = r.val
                /\ pc' = "specialize"
                /\ UNCHANGED err
    /\ UNCHANGED <<goarch, file, labels, lines, club, specialized, colored, colors, delabeled,
                   resolved, times, out>>

\* specialized := program.specializeForClub(1)
Specialize ==
    /\ Running("specialize")
    /\ \E r \in {specializeForClub(parsed, club)} :
           IF isErr(r.err)
           THEN /\ err' = r.err
                /\ UNCHANGED <<pc, specialized>>
           ELSE /\ specialized' = r.val
                /\ pc' = "color"
                /\ UNCHANGED err
    /\ UNCHANGED <<goarch, file, labels, lines, club, parsed, colored, colors, delabeled, resolved,
                   times, out>>

\* colored := specialized.resolveColor()
ResolveColor ==
    /\ Running("color")
    /\ \E r \in {resolveProgramColor(specialized)} :
           IF isErr(r.err)
           THEN /\ err' = r.err
                /\ colors' = r.colors
                /\ UNCHANGED <<pc, colored>>
           ELSE /\ colored' = r.val
                /\ colors' = r.colors
                /\ pc' = "labels"
                /\ UNCHANGED err
    /\ UNCHANGED <<goarch, file, labels, lines, club, parsed, specialized, delabeled, resolved,
                   times, out>>

\* delabeled := colored.resolveLabels(labels)
ResolveLabels ==
    /\ Running("labels")
    /\ \E r \in {resolveLabels(colored, labels)} :
           IF isErr(r.err)
           THEN /\ err' = r.err
                /\ UNCHANGED <<pc, delabeled>>
           ELSE /\ delabeled' = r.val
                /\ pc' = "time"
                /\ UNCHANGED err
    /\ UNCHANGED <<goarch, file, labels, lines, club, parsed, specialized, colored, colors, resolved,
                   times, out>>

\* resolved := delabeled.resolveTime()
ResolveTime ==
    /\ Running("time")
    /\ \E r \in {resolveTime(delabeled)} :
           IF isErr(r.err)
           THEN /\ err' = r.err
                /\ times' = r.times
                /\ UNCHANGED <<pc, resolved>>
           ELSE /\ resolved' = r.val
                /\ times' = r.times
                /\ pc' = "annotate"
                /\ UNCHANGED err
    /\ UNCHANGED <<goarch, file, labels, lines, club, parsed, specialized, colored, colors, delabeled,
                   out>>

\* resolved.annotateTimes()
AnnotateTimes ==
    /\ Running("annotate")
    /\ \E r \in {annotateTimes(resolved)} :
           /\ out' = r.out
           /\ err' = r.err
           /\ pc' = IF isErr(r.err) THEN pc ELSE "done"
    /\ UNCHANGED <<goarch, file, labels, lines, club, parsed, specialized, colored, colors, delabeled,
                   resolved, times>>

\* program.print on the program as parsed
PrintParsed ==
    /\ Running("specialize")
    /\ out' = printAll(parsed)
    /\ pc' = "printed"
    /\ UNCHANGED <<goarch, file, labels, lines, club, parsed, specialized, colored, colors, delabeled,
                   resolved, times, err>>

Next ==
    \/ ReadLabels
    \/ Parse
    \/ Specialize
    \/ ResolveColor
    \/ ResolveLabels
    \/ ResolveTime
    \/ AnnotateTimes

NextPrint == Parse \/ PrintParsed

NextClub == Parse \/ Specialize

\* main, on the programs of the line pool and the scenarios
Spec == Init /\ [][Next]_vars

\* parseProgram and program.print
SpecPrint == InitPrint /\ [][NextPrint]_vars

\* parseProgram and specializeForClub, for every target club
SpecClub == InitClub /\ [][NextClub]_vars

\* main, on a color definition and one use of it
SpecColor == InitColor /\ [][Next]_vars

\* the process has ended
Terminated == isErr(err) \/ pc = "done"

\* ------------------------------------------------------- what is expected
\* The properties below are stated with these definitions, which read the
\* input lines and the command trees without the passes above.

\* every command of program p at any depth, a block before its body
RECURSIVE AllCommands(_)
AllCommands(p) ==
    IF p = <<>> THEN <<>>
    ELSE <<Head(p)>> \o AllCommands(Head(p).subCommands) \o AllCommands(Tail(p))

positive(n) == n > 0

Nondecreasing(ts) == \A i \in 1..(Len(ts) - 1) : ts[i] <= ts[i + 1]

\* the same of a sequence of ints
NeverDecreases(ts) == \A i \in 1..(Len(ts) - 1) : ~less(ts[i + 1], ts[i])

StrictlyIncreasing(ts) == \A i \in 1..(Len(ts) - 1) : less(ts[i], ts[i + 1])

\* the sum of the ints of sequence ts, as Go adds them
RECURSIVE Sum(_)
Sum(ts) == IF ts = <<>> THEN intZero ELSE plus(Head(ts), Sum(Tail(ts)))

delayLine(n) == <<"D", ",">> \o Itoa(n)

\* a line "TIME,<digits>"
isTimeLine(l) ==
    LET fields == splitLine(l)
    IN  Len(fields) = 2 /\ fields[1] = opTIME /\ allDigits(fields[2])

TimeOnly(ls) == ls # <<>> /\ \A i \in 1..Len(ls) : isTimeLine(ls[i])

Targets(ls) == [i \in 1..Len(ls) |-> digitsValue(splitLine(ls[i])[2])]

\* target - t for every target of ts, t being the target before it (0 first)
Advances(ts) == [i \in 1..Len(ts) |-> ts[i] - (IF i = 1 THEN 0 ELSE ts[i - 1])]

\* the delay lines the specification expects for nondecreasing targets
ExpectedDelays(ts) ==
    LET ds == SelectSeq(Advances(ts), positive)
    IN  [i \in 1..Len(ds) |-> delayLine(ds[i])]

\* a number n >= 0 of few digits: sums and products of such numbers, in the
\* programs looked at, stay far inside the range of int
small(f) == allDigits(f) /\ Len(f) <= MaxPlainDigits

\* the commands of a duration the specification defines: D,n and the numeric
\* RAMP with n >= 0, L,k with k >= 1 over such commands, and the commands
\* that take no time
RECURSIVE Plain(_)
Plain(c) ==
    LET op == c.fields[1]
    IN  IF op = opD
        THEN Len(c.fields) = 2 /\ small(c.fields[2])
        ELSE IF op = opRAMP
        THEN Len(c.fields) = 5 /\ small(c.fields[5])
        ELSE IF op = opL
        THEN /\ Len(c.fields) = 2
             /\ small(c.fields[2])
             /\ digitsValue(c.fields[2]) >= 1
             /\ \A i \in 1..Len(c.subCommands) : Plain(c.subCommands[i])
        ELSE op \notin {opTIME, opCLUBS}

\* the duration the specification gives a command whose counts are numbers,
\* in the arithmetic of int
RECURSIVE ExpectedDuration(_)
ExpectedDuration(c) ==
    LET op == c.fields[1]
    IN  IF op = opD THEN Atoi(c.fields[2])
        ELSE IF op = opRAMP THEN Atoi(c.fields[5])
        ELSE IF op = opL
        THEN mul(Atoi(c.fields[2]),
                 Sum([i \in 1..Len(c.subCommands) |->
                         ExpectedDuration(c.subCommands[i])]))
        ELSE intZero

isTimeComment(l) ==
    /\ Len(l) > Len(timeComment)
    /\ SubSeq(l, 1, Len(timeComment)) = timeComment

\* the cumulative times of the comment lines of output o, in order
Annotations(o) ==
    LET cs == SelectSeq(o, isTimeComment)
    IN  [i \in 1..Len(cs) |-> Atoi(SubSeq(cs[i], Len(timeComment) + 1, Len(cs[i])))]

\* the concatenation of the sequences of ss
RECURSIVE Flatten(_)
Flatten(ss) == IF ss = <<>> THEN <<>> ELSE Head(ss) \o Flatten(Tail(ss))

\* the sum of the durations above zero of the first i commands of p
PositiveTimeUpTo(p, i) ==
    Sum([j \in 1..i |->
            IF isPositive(ExpectedDuration(p[j])) THEN ExpectedDuration(p[j])
            ELSE intZero])

\* the sum of the durations of the first i commands of p
TimeUpTo(p, i) == Sum([j \in 1..i |-> ExpectedDuration(p[j])])

\* program p printed, with the comment Total(p, i) after every top-level
\* command i of a duration above zero
Annotated(p, Total(_, _)) ==
    Flatten([i \in 1..Len(p) |->
                print(p[i]) \o (IF isPositive(ExpectedDuration(p[i]))
                                THEN <<timeComment \o formatInt(Total(p, i))>>
                                ELSE <<>>)])

\* the index of the first element of ids that P holds of, 0 if there is none
First(ids, P(_)) ==
    IF \E i \in 1..Len(ids) : P(ids[i])
    THEN CHOOSE i \in 1..Len(ids) :
             P(ids[i]) /\ \A j \in 1..(i - 1) : ~P(ids[j])
    ELSE 0

\* a listed club id parseCount refuses: zero, or not an integer
badId(f) == ~AtoiOk(f) \/ isZero(Atoi(f))

\* What a CLUBS line with the listed ids does for club target: "keep" when
\* the target comes before any refused id, "zero" or "number" when a refused
\* id comes first, "drop" otherwise.
Listing(ids, target) ==
    LET isTarget(f) == AtoiOk(f) /\ Atoi(f) = intOf(target) /\ target # 0
        match == First(ids, isTarget)
        bad == First(ids, badId)
    IN  IF bad # 0 /\ (match = 0 \/ bad < match)
        THEN IF AtoiOk(ids[bad]) THEN "zero" ELSE "number"
        ELSE IF match # 0 THEN "keep" ELSE "drop"

\* One pass over the lines ls of a well-nested input, from line i (1-based),
\* for club target.  open holds one frame for every block open at line i:
\* clubs tells a CLUBS block from an L block, live whether its body survives.
\* The result is the positions of the lines that survive, in their order,
\* and the first fatal error.
RECURSIVE Surviving(_, _, _, _, _)
Surviving(ls, i, target, open, kept) ==
    IF i > Len(ls) THEN [err |-> NoErr, at |-> kept]
    ELSE LET fields == splitLine(ls[i])
             live == \A k \in 1..Len(open) : open[k].live
             shown == IF live THEN Append(kept, i) ELSE kept
         IN  IF fields[1] = opE
             THEN LET frame == open[Len(open)]
                      outer == SubSeq(open, 1, Len(open) - 1)
                  IN  Surviving(ls, i + 1, target, outer,
                                IF frame.clubs THEN kept ELSE shown)
             ELSE IF fields[1] = opL
             THEN Surviving(ls, i + 1, target,
                            Append(open, [clubs |-> FALSE, live |-> TRUE]), shown)
             ELSE IF fields[1] = opCLUBS
             THEN LET listing == IF live THEN Listing(Tail(fields), target)
                                 ELSE "drop"
                  IN  IF listing \in {"zero", "number"}
                      THEN [err |-> Error(listing, i - 1, <<>>), at |-> kept]
                      ELSE Surviving(ls, i + 1, target,
                               Append(open, [clubs |-> TRUE,
                                             live |-> listing = "keep"]),
                               kept)
             ELSE Surviving(ls, i + 1, target, open, shown)

Specialized(ls, target) == Surviving(ls, 1, target, <<>>, <<>>)

\* the lines of ls at the positions at
LinesAt(ls, at) == [k \in 1..Len(at) |-> ls[at[k]]]

notClosing(l) == splitLine(l)[1] # opE

\* the Go line numbers of the commands among the lines of ls at the
\* positions at: a closing line is no command
CommandNumbers(ls, at) ==
    LET ks == SelectSeq([k \in 1..Len(at) |-> k],
                        LAMBDA k : notClosing(ls[at[k]]))
    IN  [j \in 1..Len(ks) |-> at[ks[j]] - 1]

\* the line numbers of the commands of program p at any depth, in order
LineNumbers(p) == [i \in 1..Len(AllCommands(p)) |-> AllCommands(p)[i].lineNo]

\* the listed ids of the CLUBS lines of ls are all integers
ListedIdsAreIntegers(ls) ==
    \A i \in 1..Len(ls) :
        LET fields == splitLine(ls[i])
        IN  fields[1] = opCLUBS => \A k \in 2..Len(fields) : AtoiOk(fields[k])

\* the number of blocks open at line i of ls
Depth(ls, i) ==
    Cardinality({j \in 1..(i - 1) : isBlockCommand(splitLine(ls[j])[1])})
        - Cardinality({j \in 1..(i - 1) : splitLine(ls[j])[1] = opE})

isColorLine(l) == splitLine(l)[1] = opCOLOR

InputNestedColor(ls) ==
    \E i \in 1..Len(ls) : isColorLine(ls[i]) /\ Depth(ls, i) > 0

InputTopColorNames(ls) ==
    {splitLine(ls[i])[2] : i \in {j \in 1..Len(ls) :
                                     isColorLine(ls[j]) /\ Depth(ls, j) = 0}}

\* the COLOR commands of program p inside its blocks
NestedColors(p) ==
    LET inner == AllCommands(Flatten([i \in 1..Len(p) |-> p[i].subCommands]))
    IN  {inner[i] : i \in {j \in 1..Len(inner) : inner[j].fields[1] = opCOLOR}}

TopColorNames(p) ==
    {p[i].fields[2] : i \in {j \in 1..Len(p) : p[j].fields[1] = opCOLOR}}

\* the name and the percentage of a color expression "name" or "name P%"
exprName(expr) ==
    IF IndexOf(expr, " ") = -1 THEN expr ELSE SubSeq(expr, 1, IndexOf(expr, " "))

exprPercent(expr) ==
    IF IndexOf(expr, " ") = -1 THEN 100
    ELSE digitsValue(SubSeq(expr, IndexOf(expr, " ") + 2, Len(expr) - 1))

\* the fields of C,<expr> resolved with integer truncation
Truncated(cmap, expr) ==
    LET c == cmap[exprName(expr)]
        P == exprPercent(expr)
    IN  <<opC, Itoa((intValue(c.r) * P) \div 100),
          Itoa((intValue(c.g) * P) \div 100),
          Itoa((intValue(c.b) * P) \div 100)>>

\* the passes a run has got past
PastParse == pc \notin {"read", "parse"}
PastSpecialize == pc \notin {"read", "parse", "specialize"}
PastColor == pc \in {"labels", "time", "annotate", "done"}
PastTime == pc \in {"annotate", "done"}
DiedIn(stage) == pc = stage /\ isErr(err)

\* ------------------------------------------------------------- properties

\* C1: resolveTime turns TIME targets that never decrease into one D,(target
\* - t) for each target above the running time t, and nothing for a target
\* equal to t (so 0,150,150,300 gives D,150 and D,150 and no fatal error);
\* a target below t is fatal.
TimeTargetsResolve ==
    ((DiedIn("time") \/ pc = "done") /\ TimeOnly(lines)) =>
        IF Nondecreasing(Targets(lines))
        THEN ~isErr(err) /\ printAll(resolved) = ExpectedDelays(Targets(lines))
        ELSE err.kind = "backInTime"

\* C4: printing the program as parsed gives back the input lines, closing
\* lines of blocks included.
ParserRoundTrip == pc = "printed" => out = lines

\* a block in a block with an empty body, closed by a line with a comment
RoundTripOfNestedBlocks ==
    pc = "printed" /\ lines = <<lnL2, lnClubs1, lnEnd, lnE, lnComment>>

\* the line a message of kind k can be about
Offending(k, l) ==
    LET fields == splitLine(l)
    IN  IF k = "EwithoutL" THEN fields[1] = opE
        ELSE IF k \in {"TIMEhere", "backInTime"} THEN fields[1] = opTIME
        ELSE IF k = "zero"
        THEN \E i \in 2..Len(fields) : AtoiOk(fields[i]) /\ isZero(Atoi(fields[i]))
        ELSE IF k = "number" THEN \E i \in 2..Len(fields) : ~AtoiOk(fields[i])
        ELSE TRUE

\* C5: the line number of every command, and of every fatal error that
\* names one, is the 1-based position of the line in the input.
LineNumbersOneBased ==
    /\ \A i \in 1..Len(AllCommands(parsed)) :
          LET c == AllCommands(parsed)[i]
          IN  c.lineNo \in 1..Len(lines) /\ lines[c.lineNo] = c.line
    /\ (isErr(err) /\ err.lineNo # -1) =>
          /\ err.lineNo \in 1..Len(lines)
          /\ Offending(err.kind, lines[err.lineNo])

\* C8: the time resolver evaluates every plain top-level command to the
\* duration of the specification (D,n to n, a numeric RAMP to its last
\* field, L,k to k times the sum of its body) without a fatal error.
DurationsAdd ==
    ((PastTime \/ DiedIn("time")) /\ \A i \in 1..Len(delabeled) : Plain(delabeled[i]))
        => /\ ~isErr(err)
           /\ Len(times) = Len(delabeled) + 1
           /\ \A i \in 1..Len(delabeled) :
                 minus(times[i + 1], times[i]) = ExpectedDuration(delabeled[i])

\* C9: in a run without a fatal error the time counter of the resolver never
\* decreases and the annotated times strictly increase.
TimeMonotonic ==
    pc = "done" => NeverDecreases(times) /\ StrictlyIncreasing(Annotations(out))

\* a top-level D command of the resolved program that stands for a TIME line
Synthesized(c) == c.fields[1] = opD /\ splitLine(lines[c.lineNo + 1])[1] = opTIME

\* a run that ends in a fatal error has written nothing, and none dies in
\* annotateTimes
FatalEndWritesNothing == isErr(err) => out = <<>> /\ pc # "annotate"

\* C10: a run that ends in a fatal error has written nothing: no run dies in
\* annotateTimes, whose program holds no TIME command and only synthesized
\* delays above zero.
NoPartialOutput ==
    /\ FatalEndWritesNothing
    /\ PastTime =>
          /\ \A i \in 1..Len(AllCommands(resolved)) :
                AllCommands(resolved)[i].fields[1] # opTIME
          /\ \A i \in 1..Len(resolved) :
                Synthesized(resolved[i]) => isPositive(Atoi(resolved[i].fields[2]))

\* C2 as amended: annotateTimes prints the resolved program with a comment
\* after each top-level command of a duration above zero, whose value is the
\* sum of the durations above zero up to that command; a loop is one
\* top-level command, so the end-to-end scenario is annotated 200, 300, 350.
AnnotationsSumPositiveDurations ==
    pc = "done" =>
        /\ out = Annotated(resolved, PositiveTimeUpTo)
        /\ lines = EndToEnd => Annotations(out) = <<intOf(200), intOf(300), intOf(350)>>

\* the end-to-end scenario has been annotated
EndToEndAnnotated == pc = "done" /\ lines = EndToEnd /\ Len(out) = 9

\* C2: the comments of the end-to-end scenario read 100, 200, 300, 350, and
\* the value of a comment is the sum of the durations of all top-level
\* commands up to it.
AnnotationsSumAllDurations ==
    pc = "done" =>
        /\ out = Annotated(resolved, TimeUpTo)
        /\ lines = EndToEnd =>
              Annotations(out) = <<intOf(100), intOf(200), intOf(300), intOf(350)>>

\* C3 as amended: specializeForClub leaves, in their order, the lines outside
\* every CLUBS block that does not list the target, without the CLUBS lines
\* and their closing lines; a listed id that is zero or no integer, met before
\* the target in a CLUBS line that is examined, is fatal.
ClubBodiesSplicedOrDropped ==
    /\ pc = "color" =>
          /\ ~isErr(Specialized(lines, club).err)
          /\ printAll(specialized) = LinesAt(lines, Specialized(lines, club).at)
          /\ LineNumbers(specialized)
                = CommandNumbers(lines, Specialized(lines, club).at)
    /\ DiedIn("specialize") => err = Specialized(lines, club).err

\* club 1 listed before a zero: the body is spliced in between the commands
\* around the block, and the zero never read
SplicedBeforeZeroId ==
    pc = "color" /\ club = 1 /\ lines = <<lnD1, lnClubs10, lnD100, lnE, lnD50>>
        /\ printAll(specialized) = <<lnD1, lnD100, lnD50>>
        /\ LineNumbers(specialized) = <<0, 2, 4>>

\* C3: every integer, zero included, is accepted as a listed id, and the
\* bodies of the CLUBS blocks are spliced in or dropped.
AnyIntegerIdAccepted ==
    (PastParse /\ ListedIdsAreIntegers(lines)) =>
        /\ ~isErr(err)
        /\ pc = "color" =>
              printAll(specialized) = LinesAt(lines, Specialized(lines, club).at)

\* C6 as amended: no program whose specialized form has a COLOR inside a
\* block gets past resolveColor, "can't define colors here" names such a
\* COLOR, and the names defined are names of top-level COLOR commands of the
\* specialized program (all of them once resolveColor is past).
ColorsDefinedAtSpecializedTopLevel ==
    /\ PastColor =>
          /\ NestedColors(specialized) = {}
          /\ DOMAIN colors = TopColorNames(specialized)
    /\ (DiedIn("color") /\ err.kind = "cantDefine") =>
          \E c \in NestedColors(specialized) : c.lineNo = err.lineNo
    /\ PastSpecialize => DOMAIN colors \subseteq TopColorNames(specialized)

\* a COLOR in a CLUBS block of the club, itself in a loop: spliced into the
\* loop, and refused there
ColorRefusedInLoop ==
    /\ DiedIn("color") /\ err.kind = "cantDefine"
    /\ lines = <<lnL2, lnClubs1, lnColorRed, lnE, lnE>>

\* C6: every program with a COLOR inside a block of the input that parses and
\* specializes ends in "can't define colors here", and the names defined are
\* names of COLOR commands at depth 0 of the input.
ColorsDefinedAtInputTopLevel ==
    /\ (Terminated /\ PastSpecialize /\ InputNestedColor(lines)) =>
          DiedIn("color") /\ err.kind = "cantDefine"
    /\ DOMAIN colors \subseteq InputTopColorNames(lines)

\* C7: every command C,<name P%> is resolved to the channels of the color
\* times P / 100, truncated toward zero, and C,<name> to the channels.
PercentTruncates ==
    PastColor =>
        \A i \in 1..Len(AllCommands(colored)) :
            LET c == AllCommands(colored)[i]
                source == splitLine(lines[c.lineNo + 1])
            IN  (source[1] = opC /\ Len(source) = 2) =>
                    c.fields = Truncated(colors, source[2])

====
